---- MODULE Spec2Model ----
(***************************************************************************)
(* Model of the HealthChecks.io integration for Home Assistant             *)
(* (custom_components/healthchecksio/__init__.py): the config-entry        *)
(* handlers async_setup_entry, async_unload_entry, _async_update_listener, *)
(* async_migrate_entry and _migrate_1_to_2, together with the refresh      *)
(* coordinator they construct (coordinator.py, whose behaviour is taken    *)
(* from the design document since that file is not part of the sources).   *)
(*                                                                         *)
(* Python strings are tuples of one-character strings, so that startswith, *)
(* split and concatenation are computed and not assumed.  A dict is a      *)
(* function whose DOMAIN is the set of keys present.                       *)
(***************************************************************************)
EXTENDS Integers, Sequences, FiniteSets, TLC

\* ------------------------------------------------------------------ bounds
\* Refresh cycles (timer ticks, on-demand refreshes and first refreshes) in a run;
\* every setup attempt starts one, so this bounds the setup attempts too.
MaxCycles == 3
\* On-demand refresh requests that may wait on one in-flight cycle.
MaxRequests == 2
\* Calls of async_migrate_entry in a run.
MaxMigrations == 2
\* Entity platforms the host already holds for the integration before the entry
\* is set up.
MaxHostPlatforms == 2

\* ----------------------------------------------------------------- strings
S_https == <<"h","t","t","p","s">>
S_binary_sensor == <<"b","i","n","a","r","y","_","s","e","n","s","o","r">>
S_sensor == <<"s","e","n","s","o","r">>
S_binary_sensor_ == <<"b","i","n","a","r","y","_","s","e","n","s","o","r","_">>
S_hosted_root == <<"h","t","t","p","s",":","/","/","h","e","a","l","t","h","c","h","e","c","k","s",".","i","o">>
S_hosted_ping == <<"h","t","t","p","s",":","/","/","h","c","-","p","i","n","g",".","c","o","m">>
S_https_local == <<"h","t","t","p","s",":","/","/","h","c",".","l","o","c","a","l">>
S_http_local == <<"h","t","t","p",":","/","/","h","c",".","l","o","c","a","l">>
S_ping == <<"p","i","n","g">>
S_key == <<"k","e","y","1">>
S_abc == <<"a","b","c">>
S_xyz == <<"x","y","z">>
S_def == <<"d","e","f">>
S_binary_sensor_xyz == S_binary_sensor_ \o S_xyz
S_eid_bs_a == <<"b","i","n","a","r","y","_","s","e","n","s","o","r",".","a">>
S_eid_bs_b == <<"b","i","n","a","r","y","_","s","e","n","s","o","r",".","b">>
S_eid_bs_c == <<"b","i","n","a","r","y","_","s","e","n","s","o","r",".","c">>
S_eid_bs_z == <<"b","i","n","a","r","y","_","s","e","n","s","o","r",".","z">>
S_eid_s_a == <<"s","e","n","s","o","r",".","a">>

\* Python's None where a string is expected (no string is this tuple: a string's
\* elements are single characters).
None == <<"<None>">>

\* str.startswith(prefix)
StartsWith(s, prefix) ==
    /\ Len(s) >= Len(prefix)
    /\ SubSeq(s, 1, Len(prefix)) = prefix

\* s.split(sep)[0] for a one-character sep: the text before the first sep, the
\* whole of s when sep does not occur.
SplitFirst(s, sep) ==
    LET hits == {i \in 1..Len(s) : s[i] = sep}
    IN  IF hits = {} THEN s
        ELSE SubSeq(s, 1, (CHOOSE i \in hits : \A j \in hits : i <= j) - 1)

\* ------------------------------------------------------------------- dicts
\* dict.get(key): None when the key is absent.
Get(d, key) == IF key \in DOMAIN d THEN d[key] ELSE None

\* Truth value of dict.get(key) for a key holding a bool: absent (None) is false.
Truthy(d, key) == key \in DOMAIN d /\ d[key] = TRUE

\* dict with key set to val (added when absent).
Put(d, key, val) == [k \in DOMAIN d \cup {key} |-> IF k = key THEN val ELSE d[k]]

\* dict.pop(key, None)
Pop(d, key) == [k \in DOMAIN d \ {key} |-> d[k]]

\* const.py: keys of config_entry.data and the platform names.
CONF_API_KEY == "api_key"
CONF_CREATE_BINARY_SENSOR == "create_binary_sensor"
CONF_CREATE_SENSOR == "create_sensor"
CONF_PING_ENDPOINT == "ping_endpoint"
CONF_PING_UUID == "ping_uuid"
CONF_SELF_HOSTED == "self_hosted"
CONF_SITE_ROOT == "site_root"
CONF_CHECK == "check"
DEFAULT_SITE_ROOT == S_hosted_root
DEFAULT_PING_ENDPOINT == S_hosted_ping
BINARY_SENSOR == S_binary_sensor
SENSOR == S_sensor

\* The config entry the handlers are called with, and another entry of the
\* integration that the handlers are never called with.
ENTRY == "e1"
OTHER_ENTRY == "e2"

VARIABLES
    \* the config entry (owned by the host, handed to every handler)
    version,          \* config_entry.version
    data,             \* config_entry.data
    unique_id,        \* config_entry.unique_id
    entry_state,      \* config_entry.state
    runtime_data,     \* config_entry.runtime_data: a coordinator id, 0 when unset
    update_listeners, \* update listeners registered on the entry
    on_unload,        \* callbacks registered with config_entry.async_on_unload
    \* the host's registries
    registry,         \* entity registry: set of [entity_id, unique_id, config_entry_id]
    platforms,        \* entity_platform.async_get_platforms(hass, DOMAIN)
    \* positions of the handlers
    setup_pc,         \* async_setup_entry: "idle", "first_refresh", "returned", "raised"
    setup_platforms,  \* its local `platforms`
    forward_called,   \* async_forward_entry_setups was called by this setup attempt
    forwarded,        \* the platform list it was called with
    listeners_before, \* update_listeners when this setup attempt began
    unload_pc,        \* async_unload_entry: "idle", "unloading"
    unload_request,   \* unique_platforms passed to async_unload_platforms
    unload_result,    \* last return value: "none", "true", "false"
    unload_outcome,   \* how async_unload_platforms ended in the last call of
                      \* async_unload_entry; "none" when it was not called
    reload_requested, \* async_reload was called and the host has not begun it
    remove_errors,    \* entities whose removal raised in the listener's last run
    \* the coordinator referenced by the entry
    coord,            \* id of the coordinator last constructed, 0 before any
    coord_config,     \* its configuration, captured at construction
    first_refresh,    \* "none", "running", "ok", "failed"
    snapshot,         \* [records, captured]
    fresh,            \* freshness flag
    clock,            \* cycles started so far: the capture timestamps
    log,              \* the coordinator's unfinished cycles: [n, fetch, body, ping]
    fetch_ok,         \* the cycles (by timestamp) whose fetch succeeded
    pinged,           \* the cycles (by timestamp) in which a ping was issued
    observed,         \* the last three snapshots delivered to observers
    waiting,          \* on-demand requests awaiting the in-flight cycle
    timer,            \* the refresh timer is scheduled
    torn_down,        \* teardown has begun
    \* async_migrate_entry
    migrate_results,  \* its return values so far, one per call
    rename_errors     \* entities whose rename raised ValueError in its last run

entry_vars == <<version, data, unique_id, entry_state, runtime_data,
                update_listeners, on_unload>>
host_vars == <<registry, platforms>>
setup_vars == <<setup_pc, setup_platforms, forward_called, forwarded, listeners_before>>
unload_vars == <<unload_pc, unload_request, unload_result, unload_outcome>>
listener_vars == <<reload_requested, remove_errors>>
coord_vars == <<coord, coord_config, first_refresh, snapshot, fresh, clock, log,
                fetch_ok, pinged, observed, waiting, timer, torn_down>>
migrate_vars == <<migrate_results, rename_errors>>
vars == <<entry_vars, host_vars, setup_vars, unload_vars, listener_vars,
          coord_vars, migrate_vars>>

\* ------------------------------------------------------------- coordinator
\* The snapshot of a coordinator that has not fetched yet.
EmptySnapshot == [records |-> "empty", captured |-> 0]

\* Bodies a successful status fetch may return.
Responses == {"r1", "r2"}

\* The arguments async_setup_entry constructs the coordinator with.
CoordinatorConfig(d) ==
    [api_key |-> d[CONF_API_KEY],
     site_root |-> d[CONF_SITE_ROOT],
     ping_endpoint |-> d[CONF_PING_ENDPOINT],
     ping_verify_ssl |-> StartsWith(d[CONF_PING_ENDPOINT], S_https),
     check_verify_ssl |-> StartsWith(d[CONF_SITE_ROOT], S_https),
     ping_uuid |-> Get(d, CONF_PING_UUID)]

\* Cycles of the coordinator that have started and not finished.
InFlight == DOMAIN log
\* Cycles whose status fetch is on the wire.
Fetching == {i \in InFlight : log[i].fetch = "pending"}
\* Cycles whose liveness ping is on the wire.
Pinging == {i \in InFlight : log[i].ping = "issued"}

\* The guard left out: a cycle may start at any time.
MayStartCycleUnguarded == TRUE

\* The concurrency guard: a cycle may start only when none is in flight.
MayStartCycle == InFlight = {}

\* What an observer is handed at the end of a cycle.
View(snap, fr) == [records |-> snap.records, captured |-> snap.captured, fresh |-> fr]

\* The deliveries kept for inspection: the last three.
Deliver(obs, v) == IF Len(obs) < 3 THEN Append(obs, v) ELSE Append(Tail(obs), v)

\* The cycles still running once cycle i has finished.
Finish(i) == [j \in 1..(Len(log) - 1) |-> IF j < i THEN log[j] ELSE log[j + 1]]

\* Idle -> Fetching: the cycle takes the next timestamp and issues fetchStatus.
StartCycle ==
    /\ clock < MaxCycles
    /\ clock' = clock + 1
    /\ log' = Append(log, [n |-> clock + 1, fetch |-> "pending",
                           body |-> "none", ping |-> "none"])

\* A timer tick. The timer is rescheduled when a cycle ends, so a tick finds the
\* coordinator idle unless the guard is broken.
TimerTick ==
    /\ timer
    /\ ~torn_down
    /\ MayStartCycle
    /\ StartCycle
    /\ UNCHANGED <<coord, coord_config, first_refresh, snapshot, fresh, fetch_ok,
                   pinged, observed, waiting, timer, torn_down>>
    /\ UNCHANGED <<entry_vars, host_vars, setup_vars, unload_vars, listener_vars,
                   migrate_vars>>

\* requestRefresh(): starts a cycle when idle, otherwise joins the one in flight.
RequestRefresh ==
    /\ first_refresh = "ok"
    /\ ~torn_down
    /\ IF MayStartCycle
       THEN StartCycle /\ UNCHANGED waiting
       ELSE /\ waiting < MaxRequests
            /\ waiting' = waiting + 1
            /\ UNCHANGED <<clock, log>>
    /\ UNCHANGED <<coord, coord_config, first_refresh, snapshot, fresh, fetch_ok,
                   pinged, observed, timer, torn_down>>
    /\ UNCHANGED <<entry_vars, host_vars, setup_vars, unload_vars, listener_vars,
                   migrate_vars>>

\* The snapshot and freshness after a successful fetch of cycle i returning r.
SnapshotOnSuccess(i, r) == [records |-> r, captured |-> log[i].n]

\* A failed fetch clearing the snapshot instead of keeping it.
SnapshotClearedOnFailure == EmptySnapshot

\* The snapshot after a failed fetch: the previous one, untouched.
SnapshotOnFailure == snapshot

\* Freshness after the ping of a cycle completed with result ok.
FreshAfterPing(ok) == fresh

\* A ping issued whatever the fetch's outcome.
PingWhateverTheFetch(ok) == "issued"

\* The ping of a cycle once its fetch has ended: issued after a success only.
PingAfterFetch(ok) == IF ok THEN "issued" ELSE "none"

\* The cycle's timestamp when its fetch ending with ok issues a ping.
PingedAfterFetch(i, ok) == IF PingAfterFetch(ok) = "issued" THEN {log[i].n} ELSE {}

\* The result of a call in flight at teardown applied all the same.
NeverDiscarded == FALSE

\* After teardown the result of a call that was in flight is discarded.
Discarded == torn_down

\* fetchStatus of cycle i succeeds with body r: the snapshot is replaced as a
\* whole and the cycle goes on to ping. After teardown the result is dropped.
FetchSucceeds(i, r) ==
    /\ i \in Fetching
    /\ IF Discarded
       THEN /\ log' = Finish(i)
            /\ UNCHANGED <<snapshot, fresh, fetch_ok, pinged>>
       ELSE /\ snapshot' = SnapshotOnSuccess(i, r)
            /\ fresh' = TRUE
            /\ fetch_ok' = fetch_ok \cup {log[i].n}
            /\ pinged' = pinged \cup PingedAfterFetch(i, TRUE)
            /\ log' = [log EXCEPT ![i].fetch = "ok", ![i].body = r,
                                  ![i].ping = PingAfterFetch(TRUE)]
    /\ UNCHANGED <<coord, coord_config, first_refresh, clock, observed, waiting,
                   timer, torn_down>>
    /\ UNCHANGED <<entry_vars, host_vars, setup_vars, unload_vars, listener_vars,
                   migrate_vars>>

\* fetchStatus of cycle i fails: the snapshot stays, freshness is cleared, the
\* cycle ends without a ping and observers are notified. A failure of the
\* first refresh is escalated instead: no observer is notified.
FetchFails(i) ==
    /\ i \in Fetching
    /\ IF Discarded
       THEN /\ log' = Finish(i)
            /\ UNCHANGED <<snapshot, fresh, pinged, observed, waiting, first_refresh>>
       ELSE /\ snapshot' = SnapshotOnFailure
            /\ fresh' = FALSE
            /\ pinged' = pinged \cup PingedAfterFetch(i, FALSE)
            /\ log' = IF PingAfterFetch(FALSE) = "none"
                      THEN Finish(i)
                      ELSE [log EXCEPT ![i].fetch = "failed",
                                       ![i].ping = PingAfterFetch(FALSE)]
            /\ waiting' = 0
            /\ IF first_refresh = "running"
               THEN first_refresh' = "failed" /\ UNCHANGED observed
               ELSE /\ observed' = Deliver(observed, View(SnapshotOnFailure, FALSE))
                    /\ UNCHANGED first_refresh
    /\ UNCHANGED <<coord, coord_config, clock, fetch_ok, timer, torn_down>>
    /\ UNCHANGED <<entry_vars, host_vars, setup_vars, unload_vars, listener_vars,
                   migrate_vars>>

\* sendPing of cycle i completes, with or without success: the cycle ends,
\* observers are notified, the timer is rescheduled.
PingDone(i, ok) ==
    /\ i \in Pinging
    /\ log' = Finish(i)
    /\ IF Discarded
       THEN UNCHANGED <<fresh, observed, waiting, first_refresh, timer>>
       ELSE /\ fresh' = FreshAfterPing(ok)
            /\ observed' = Deliver(observed, View(snapshot, FreshAfterPing(ok)))
            /\ waiting' = 0
            /\ timer' = TRUE
            /\ first_refresh' = IF first_refresh = "running" /\ log[i].fetch = "ok"
                                THEN "ok" ELSE first_refresh
    /\ UNCHANGED <<coord, coord_config, snapshot, clock, fetch_ok, pinged, torn_down>>
    /\ UNCHANGED <<entry_vars, host_vars, setup_vars, unload_vars, listener_vars,
                   migrate_vars>>

\* Teardown of the coordinator: the timer is cancelled and no cycle starts again.
Teardown ==
    /\ torn_down' = TRUE
    /\ timer' = FALSE

\* -------------------------------------------------------- host registries
\* The platform of an entity: ent.entity_id.split(".")[0]
PlatformOf(ent) == SplitFirst(ent.entity_id, ".")

\* er.async_entries_for_config_entry(entity_registry, entry_id)
EntriesForConfigEntry(reg, entry_id) == {e \in reg : e.config_entry_id = entry_id}

\* p.config_entry.state of an entity platform, the entry being in state st.
PlatformEntryState(p, st) == IF p.entry_id = ENTRY THEN st ELSE "LOADED"

\* The callbacks registered with async_on_unload run: each unsubscribes the
\* update listener added with it.
ListenersAfterOnUnload == update_listeners - on_unload

\* ------------------------------------------------------- async_setup_entry
\* Lines 40 and 42 reading the flags with a default of True: an absent flag
\* adds its platform.
SetupPlatformsMissingAsTrue(d) ==
    (IF CONF_CREATE_BINARY_SENSOR \notin DOMAIN d \/ Truthy(d, CONF_CREATE_BINARY_SENSOR)
     THEN <<BINARY_SENSOR>> ELSE <<>>)
    \o (IF CONF_CREATE_SENSOR \notin DOMAIN d \/ Truthy(d, CONF_CREATE_SENSOR)
        THEN <<SENSOR>> ELSE <<>>)

\* The local `platforms` list: a flag that is absent or false adds nothing.
SetupPlatforms(d) ==
    (IF Truthy(d, CONF_CREATE_BINARY_SENSOR) THEN <<BINARY_SENSOR>> ELSE <<>>)
    \o (IF Truthy(d, CONF_CREATE_SENSOR) THEN <<SENSOR>> ELSE <<>>)

\* Line 64 as it would be with the failure of the first refresh swallowed.
FirstRefreshReturnedEvenOnFailure == first_refresh \in {"ok", "failed"}

\* `await coordinator.async_config_entry_first_refresh()` has returned normally.
FirstRefreshReturned == first_refresh = "ok"

\* `await coordinator.async_config_entry_first_refresh()` has raised.
FirstRefreshRaised == first_refresh = "failed"

\* Lines 37-64 up to the first suspension: the coordinator is constructed from
\* the entry data, stored in runtime_data, the update listener is registered,
\* and the first refresh issues its fetch.
AsyncSetupEntryBegin ==
    /\ version = 2
    /\ entry_state \in {"NOT_LOADED", "SETUP_RETRY"}
    /\ unload_pc = "idle"
    /\ clock < MaxCycles
    \* a call of the previous coordinator still in flight ends before the next
    \* coordinator is followed
    /\ InFlight = {}
    /\ setup_platforms' = SetupPlatforms(data)
    /\ coord' = coord + 1
    /\ coord_config' = CoordinatorConfig(data)
    /\ snapshot' = EmptySnapshot
    /\ fresh' = FALSE
    /\ observed' = <<>>
    /\ waiting' = 0
    /\ timer' = FALSE
    /\ torn_down' = FALSE
    /\ runtime_data' = coord + 1
    /\ listeners_before' = update_listeners
    /\ update_listeners' = update_listeners + 1
    /\ on_unload' = on_unload + 1
    /\ first_refresh' = "running"
    /\ clock' = clock + 1
    /\ log' = <<[n |-> clock + 1, fetch |-> "pending", body |-> "none", ping |-> "none"]>>
    /\ fetch_ok' = {}
    /\ pinged' = {}
    /\ setup_pc' = "first_refresh"
    /\ forward_called' = FALSE
    /\ forwarded' = <<>>
    /\ entry_state' = "SETUP_IN_PROGRESS"
    /\ reload_requested' = FALSE
    /\ UNCHANGED <<version, data, unique_id, remove_errors>>
    /\ UNCHANGED <<host_vars, unload_vars, migrate_vars>>

\* Lines 65-67: the first refresh returned, the platforms are forwarded and the
\* handler returns True; the host marks the entry loaded.
AsyncSetupEntryForward ==
    /\ setup_pc = "first_refresh"
    /\ FirstRefreshReturned
    /\ forward_called' = TRUE
    /\ forwarded' = setup_platforms
    /\ platforms' = platforms \o
           [i \in 1..Len(setup_platforms) |->
                [domain |-> setup_platforms[i], entry_id |-> ENTRY]]
    /\ setup_pc' = "returned"
    /\ setup_platforms' = <<>>
    /\ entry_state' = "LOADED"
    /\ UNCHANGED <<version, data, unique_id, runtime_data, update_listeners, on_unload>>
    /\ UNCHANGED <<registry, listeners_before>>
    /\ UNCHANGED <<unload_vars, listener_vars, coord_vars, migrate_vars>>

\* Line 64 raises: the exception leaves async_setup_entry, lines 65-67 are not
\* run. The host runs the entry's on-unload callbacks and will retry.
AsyncSetupEntryRaise ==
    /\ setup_pc = "first_refresh"
    /\ FirstRefreshRaised
    /\ setup_pc' = "raised"
    /\ entry_state' = "SETUP_RETRY"
    /\ update_listeners' = ListenersAfterOnUnload
    /\ on_unload' = 0
    /\ setup_platforms' = <<>>
    /\ UNCHANGED <<version, data, unique_id, runtime_data>>
    /\ UNCHANGED <<forward_called, forwarded, listeners_before>>
    /\ UNCHANGED <<host_vars, unload_vars, listener_vars, coord_vars, migrate_vars>>

\* ------------------------------------------------------ async_unload_entry
RECURSIVE Dedup(_)
\* list(dict.fromkeys(s)): first occurrences, in order.
Dedup(s) ==
    IF s = <<>> THEN <<>>
    ELSE LET front == Dedup(SubSeq(s, 1, Len(s) - 1))
             last == s[Len(s)]
         IN  IF \E i \in 1..Len(front) : front[i] = last
             THEN front ELSE Append(front, last)

\* Line 84 left out: the platforms of every entry count as active.
ActivePlatformsOfAnyEntry(st) ==
    LET any == SelectSeq(platforms,
                    LAMBDA p : /\ p.entry_id # "none"
                               /\ PlatformEntryState(p, st)
                                      \in {"LOADED", "UNLOAD_IN_PROGRESS"})
    IN  [i \in 1..Len(any) |-> any[i].domain]

\* active_platforms: the platforms of this entry whose entry is LOADED or
\* UNLOAD_IN_PROGRESS, as Platform(p.domain); st is the entry's state.
ActivePlatforms(st) ==
    LET mine == SelectSeq(platforms,
                    LAMBDA p : /\ p.entry_id # "none"
                               /\ p.entry_id = ENTRY
                               /\ PlatformEntryState(p, st)
                                      \in {"LOADED", "UNLOAD_IN_PROGRESS"})
    IN  [i \in 1..Len(mine) |-> mine[i].domain]

UniquePlatforms(st) == Dedup(ActivePlatforms(st))

\* Line 98 left out: an exception caught on line 97 leaves unload_ok as line 89
\* initialised it.
UnloadOkUnlessReturnedFalse(outcome) == outcome # "false"

\* unload_ok for each way async_unload_platforms can end: its boolean, or False
\* when it raises ValueError or OperationNotAllowed.
UnloadOk(outcome) == outcome = "true"

\* The handler returns ok. On True the host marks the entry not loaded, runs the
\* on-unload callbacks, drops runtime_data, and the coordinator is torn down.
UnloadReturns(ok, unloaded) ==
    /\ unload_result' = IF ok THEN "true" ELSE "false"
    /\ unload_pc' = "idle"
    /\ IF ok
       THEN /\ entry_state' = "NOT_LOADED"
            /\ update_listeners' = ListenersAfterOnUnload
            /\ on_unload' = 0
            /\ runtime_data' = 0
            /\ platforms' = SelectSeq(platforms,
                                LAMBDA p : ~(p.entry_id = ENTRY /\ unloaded))
            /\ Teardown
       ELSE /\ entry_state' = "FAILED_UNLOAD"
            /\ UNCHANGED <<update_listeners, on_unload, runtime_data, platforms,
                           timer, torn_down>>

\* Lines 75-91: the platforms to unload are computed; with none, the handler
\* returns True at once, otherwise it awaits async_unload_platforms.
AsyncUnloadEntryBegin ==
    /\ entry_state = "LOADED"
    /\ unload_pc = "idle"
    /\ LET unique == UniquePlatforms("UNLOAD_IN_PROGRESS")
       IN  /\ unload_request' = unique
           /\ unload_outcome' = "none"
           /\ IF unique = <<>>
              THEN UnloadReturns(TRUE, FALSE)
              ELSE /\ unload_pc' = "unloading"
                   /\ entry_state' = "UNLOAD_IN_PROGRESS"
                   /\ UNCHANGED <<unload_result, update_listeners, on_unload,
                                  runtime_data, platforms, timer, torn_down>>
    /\ UNCHANGED <<version, data, unique_id, registry, remove_errors>>
    /\ reload_requested' = FALSE
    /\ UNCHANGED <<coord, coord_config, first_refresh, snapshot, fresh, clock, log,
                   fetch_ok, pinged, observed, waiting>>
    /\ UNCHANGED <<setup_vars, migrate_vars>>

\* Lines 92-106: async_unload_platforms returns a boolean or raises.
AsyncUnloadEntryFinish(outcome) ==
    /\ unload_pc = "unloading"
    /\ unload_outcome' = outcome
    /\ UnloadReturns(UnloadOk(outcome), TRUE)
    /\ UNCHANGED <<version, data, unique_id, registry, unload_request>>
    /\ UNCHANGED <<coord, coord_config, first_refresh, snapshot, fresh, clock, log,
                   fetch_ok, pinged, observed, waiting>>
    /\ UNCHANGED <<setup_vars, listener_vars, migrate_vars>>

\* -------------------------------------------------- _async_update_listener
\* Site roots a configuration may hold.
SiteRoots == {S_hosted_root, S_https_local, S_http_local}

\* The platform test of lines 120-121 left out: an entity is removed as soon as
\* either platform is disabled.
ShouldRemoveIfAnyDisabled(ent, d) ==
    ~d[CONF_CREATE_SENSOR] \/ ~d[CONF_CREATE_BINARY_SENSOR]

\* The entity of the loop is removed: its platform is disabled in the data.
ShouldRemove(ent, d) ==
    \/ PlatformOf(ent) = SENSOR /\ ~d[CONF_CREATE_SENSOR]
    \/ PlatformOf(ent) = BINARY_SENSOR /\ ~d[CONF_CREATE_BINARY_SENSOR]

\* The reload skipped when a removal raised (the exception not contained).
ReloadOnlyIfRemovalsSucceed(failing) == failing = {}

\* Line 135 is reached and async_reload called, `failing` being the entities
\* whose removal raised KeyError or ValueError: the except clause contains them.
ReloadIssued(failing) == TRUE

\* The host has stored new data d and calls the listener: entities of disabled
\* platforms are removed (a failing removal is logged), then the entry is
\* reloaded.
AsyncUpdateListener(d, failing) ==
    /\ update_listeners > 0
    /\ d # data
    /\ LET targets == {e \in EntriesForConfigEntry(registry, ENTRY) : ShouldRemove(e, d)}
       IN  /\ failing \subseteq targets
           /\ registry' = registry \ (targets \ failing)
    /\ remove_errors' = failing
    /\ data' = d
    /\ reload_requested' = (reload_requested \/ ReloadIssued(failing))
    /\ UNCHANGED <<version, unique_id, entry_state, runtime_data, update_listeners,
                   on_unload, platforms>>
    /\ UNCHANGED <<setup_vars, unload_vars, coord_vars, migrate_vars>>

\* The data an update can store over d: both create flags and the ping identifier.
UpdatedData(d) ==
    {Put(Put(Put(d, CONF_CREATE_BINARY_SENSOR, b), CONF_CREATE_SENSOR, s),
         CONF_PING_UUID, u) : b \in BOOLEAN, s \in BOOLEAN, u \in {S_abc, S_xyz}}

\* ----------------------------------------------------- async_migrate_entry
S_None == <<"N","o","n","e">>
S_slash == <<"/">>

\* str(x) inside an f-string: None prints as "None".
Format(x) == IF x = None THEN S_None ELSE x

\* helpers.clean_url, kept symbolic: the text it returns for u.
CleanUrl(u) == <<"clean_url(">> \o u \o <<")">>

\* Lines 163-176 without the else branch: an entry that is not self-hosted
\* keeps the site root and ping endpoint it had stored.
MigratedDataKeepingStored(d) ==
    LET d1 == Put(d, CONF_CREATE_BINARY_SENSOR, TRUE)
        d2 == Put(d1, CONF_CREATE_SENSOR, FALSE)
        d3 == Put(d2, CONF_PING_UUID, Get(d2, CONF_CHECK))
        d4 == Pop(d3, CONF_CHECK)
    IN  IF Truthy(d4, CONF_SELF_HOSTED)
        THEN Put(d4, CONF_PING_ENDPOINT,
                 CleanUrl(Format(Get(d4, CONF_SITE_ROOT)) \o S_slash
                          \o Format(Get(d4, CONF_PING_ENDPOINT))))
        ELSE d4

\* The new entry data built by _migrate_1_to_2 (lines 163-176).
MigratedData(d) ==
    LET d1 == Put(d, CONF_CREATE_BINARY_SENSOR, TRUE)
        d2 == Put(d1, CONF_CREATE_SENSOR, FALSE)
        d3 == Put(d2, CONF_PING_UUID, Get(d2, CONF_CHECK))
        d4 == Pop(d3, CONF_CHECK)
    IN  IF Truthy(d4, CONF_SELF_HOSTED)
        THEN Put(d4, CONF_PING_ENDPOINT,
                 CleanUrl(Format(Get(d4, CONF_SITE_ROOT)) \o S_slash
                          \o Format(Get(d4, CONF_PING_ENDPOINT))))
        ELSE Put(Put(d4, CONF_SITE_ROOT, DEFAULT_SITE_ROOT),
                 CONF_PING_ENDPOINT, DEFAULT_PING_ENDPOINT)

\* The entities the loop of lines 180-211 tries to rename.
NeedsPrefix(reg) ==
    {e \in EntriesForConfigEntry(reg, ENTRY) :
        /\ PlatformOf(e) = BINARY_SENSOR
        /\ ~StartsWith(e.unique_id, S_binary_sensor_)}

\* The loop left at the first ValueError: with any entity failing, none of
\* the others is renamed.
RenamedUntilError(reg, failing) == IF failing = {} THEN NeedsPrefix(reg) ELSE {}

\* The entities the loop renames: all it tries but those of `failing`, for
\* which async_update_entity raised ValueError (caught on line 205).
Renamed(reg, failing) == NeedsPrefix(reg) \ failing

\* The registry after the loop; the entities of `failing` keep their unique id.
RegistryAfterMigration(reg, failing) ==
    LET renamed == Renamed(reg, failing)
    IN  (reg \ renamed)
        \cup {[e EXCEPT !.unique_id = S_binary_sensor_ \o e.unique_id] : e \in renamed}

\* _migrate_1_to_2 run again on an entry already at version 2.
RunsMigrationUpTo2(v) == v <= 2

\* async_migrate_entry runs _migrate_1_to_2 for an entry at version v.
RunsMigration1To2(v) == v = 1

\* async_migrate_entry refuses an entry at version v.
IsDowngrade(v) == v > 2

\* _migrate_1_to_2: the entities are renamed, then the entry is updated; ok is
\* what hass.config_entries.async_update_entry returns.
Migrate1To2(ok, failing) ==
    /\ failing \subseteq NeedsPrefix(registry)
    /\ registry' = RegistryAfterMigration(registry, failing)
    /\ IF ok
       THEN /\ data' = MigratedData(data)
            /\ unique_id' = Get(MigratedData(data), CONF_API_KEY)
            /\ version' = 2
       ELSE UNCHANGED <<data, unique_id, version>>
    /\ rename_errors' = failing
    /\ migrate_results' = Append(migrate_results, IF ok THEN "true" ELSE "false")

\* async_migrate_entry, called by the host on an entry that is not set up.
AsyncMigrateEntry(ok, failing) ==
    /\ Len(migrate_results) < MaxMigrations
    /\ entry_state = "NOT_LOADED"
    /\ IF IsDowngrade(version)
       THEN /\ migrate_results' = Append(migrate_results, "false")
            /\ ok /\ failing = {}
            /\ UNCHANGED <<data, unique_id, version, registry>>
            /\ rename_errors' = {}
       ELSE IF RunsMigration1To2(version)
            THEN Migrate1To2(ok, failing)
            ELSE /\ migrate_results' = Append(migrate_results, "true")
                 /\ ok /\ failing = {}
                 /\ UNCHANGED <<data, unique_id, version, registry>>
                 /\ rename_errors' = {}
    /\ UNCHANGED <<entry_state, runtime_data, update_listeners, on_unload, platforms>>
    /\ UNCHANGED <<setup_vars, unload_vars, listener_vars, coord_vars>>

\* ------------------------------------------------------------ initial states
\* The stored (self-hosted flag, site root) pairs: the hosted service, a hosted
\* entry holding a plain-http root, and a private instance over https or http.
HostingChoices ==
    {<<FALSE, S_hosted_root>>, <<FALSE, S_http_local>>,
     <<TRUE, S_https_local>>, <<TRUE, S_http_local>>}

\* Data of a version 2 entry. Both create flags are present: _migrate_1_to_2
\* writes them (lines 167-168) and _async_update_listener reads them with
\* data[...] (lines 115-116).
V2Data ==
    {[k \in {CONF_API_KEY, CONF_SELF_HOSTED, CONF_SITE_ROOT, CONF_PING_ENDPOINT,
             CONF_PING_UUID, CONF_CREATE_BINARY_SENSOR, CONF_CREATE_SENSOR} |->
        CASE k = CONF_API_KEY -> S_key
          [] k = CONF_SELF_HOSTED -> h[1]
          [] k = CONF_SITE_ROOT -> h[2]
          [] k = CONF_PING_ENDPOINT ->
                 IF h[1] THEN h[2] \o S_slash \o S_ping ELSE S_hosted_ping
          [] k = CONF_PING_UUID -> S_abc
          [] k = CONF_CREATE_BINARY_SENSOR -> b
          [] OTHER -> s]
     : h \in HostingChoices, b \in BOOLEAN, s \in BOOLEAN}

\* Data of a version 1 entry: no create flags, the ping identifier under "check".
V1Data ==
    {[k \in {CONF_API_KEY, CONF_SELF_HOSTED, CONF_SITE_ROOT, CONF_PING_ENDPOINT} \cup ck |->
        CASE k = CONF_API_KEY -> S_key
          [] k = CONF_SELF_HOSTED -> sh
          [] k = CONF_SITE_ROOT -> r
          [] k = CONF_PING_ENDPOINT -> pe
          [] OTHER -> S_abc]
     : sh \in BOOLEAN, r \in SiteRoots, pe \in {S_ping, S_hosted_ping},
       ck \in {{}, {CONF_CHECK}}}

Entity(eid, uid, entry) == [entity_id |-> eid, unique_id |-> uid, config_entry_id |-> entry]

\* Entities the registry may hold: three binary sensors (one already prefixed)
\* and a sensor of this entry, and a binary sensor of another entry.
EntityPool ==
    {Entity(S_eid_bs_a, S_abc, ENTRY), Entity(S_eid_bs_b, S_binary_sensor_xyz, ENTRY),
     Entity(S_eid_bs_c, S_def, ENTRY),
     Entity(S_eid_s_a, S_xyz, ENTRY), Entity(S_eid_bs_z, S_abc, OTHER_ENTRY)}

\* The registry of a set-up integration: one entity per platform, and the other
\* entry's.
LoadedRegistry ==
    {Entity(S_eid_bs_a, S_binary_sensor_ \o S_abc, ENTRY), Entity(S_eid_s_a, S_xyz, ENTRY),
     Entity(S_eid_bs_z, S_binary_sensor_ \o S_abc, OTHER_ENTRY)}

NoConfig ==
    [api_key |-> None, site_root |-> None, ping_endpoint |-> None,
     ping_verify_ssl |-> FALSE, check_verify_ssl |-> FALSE, ping_uuid |-> None]

\* No handler of the entry has run and no coordinator exists.
Idle ==
    /\ entry_state = "NOT_LOADED"
    /\ runtime_data = 0
    /\ update_listeners = 0
    /\ on_unload = 0
    /\ setup_pc = "idle"
    /\ setup_platforms = <<>>
    /\ forward_called = FALSE
    /\ forwarded = <<>>
    /\ listeners_before = 0
    /\ unload_pc = "idle"
    /\ unload_request = <<>>
    /\ unload_result = "none"
    /\ unload_outcome = "none"
    /\ reload_requested = FALSE
    /\ remove_errors = {}
    /\ coord = 0
    /\ coord_config = NoConfig
    /\ first_refresh = "none"
    /\ snapshot = EmptySnapshot
    /\ fresh = FALSE
    /\ clock = 0
    /\ log = <<>>
    /\ fetch_ok = {}
    /\ pinged = {}
    /\ observed = <<>>
    /\ waiting = 0
    /\ timer = FALSE
    /\ torn_down = FALSE
    /\ migrate_results = <<>>
    /\ rename_errors = {}

\* No handler has run; the host holds the binary sensor platform of another entry.
Quiescent ==
    /\ platforms = <<[domain |-> BINARY_SENSOR, entry_id |-> OTHER_ENTRY]>>
    /\ Idle

\* What entity_platform.async_get_platforms may hold before the entry is set
\* up: platforms of this entry, of another entry, and platforms without a
\* config entry ("none"), possibly several of one entry and domain.
HostPlatforms ==
    [domain : {BINARY_SENSOR, SENSOR}, entry_id : {ENTRY, OTHER_ENTRY, "none"}]

HostPlatformLists == UNION {[1..n -> HostPlatforms] : n \in 0..MaxHostPlatforms}

\* A stored entry at the current version, before the host sets it up.
Init ==
    /\ version = 2
    /\ data \in V2Data
    /\ unique_id = S_key
    /\ registry = LoadedRegistry
    /\ Quiescent

\* A stored entry at any version, before the host migrates it.
MigrateInit ==
    /\ version \in 1..3
    /\ data \in IF version = 1 THEN V1Data ELSE V2Data
    /\ unique_id \in {None, S_key}
    /\ registry \in SUBSET EntityPool
    /\ Quiescent

\* Entry data in which either create flag may be missing: async_setup_entry
\* reads the flags with data.get (lines 40, 42).
AnyFlagsData ==
    {[k \in DOMAIN d \ ks |-> d[k]] :
        d \in V2Data, ks \in SUBSET {CONF_CREATE_BINARY_SENSOR, CONF_CREATE_SENSOR}}

\* A stored entry at the current version whose create flags may be missing.
SetupInit ==
    /\ version = 2
    /\ data \in AnyFlagsData
    /\ unique_id = S_key
    /\ registry = LoadedRegistry
    /\ Quiescent

\* A stored entry of the hosted service at the current version, the host
\* holding any list of platforms.
UnloadInit ==
    /\ version = 2
    /\ data \in {d \in V2Data : d[CONF_SITE_ROOT] = S_hosted_root}
    /\ unique_id = S_key
    /\ registry = LoadedRegistry
    /\ platforms \in HostPlatformLists
    /\ Idle

\* The ways async_unload_platforms can end.
UnloadOutcomes == {"true", "false", "ValueError", "OperationNotAllowed"}

\* The entry is set up and unloaded while its coordinator refreshes.
Next ==
    \/ AsyncSetupEntryBegin
    \/ AsyncSetupEntryForward
    \/ AsyncSetupEntryRaise
    \/ AsyncUnloadEntryBegin
    \/ \E outcome \in UnloadOutcomes : AsyncUnloadEntryFinish(outcome)
    \/ TimerTick
    \/ RequestRefresh
    \/ \E i \in DOMAIN log, r \in Responses : FetchSucceeds(i, r)
    \/ \E i \in DOMAIN log : FetchFails(i)
    \/ \E i \in DOMAIN log, ok \in BOOLEAN : PingDone(i, ok)

\* The entry is set up, updated, reloaded and unloaded; of the coordinator only
\* the first refresh of each setup is followed.
ReloadNext ==
    \/ AsyncSetupEntryBegin
    \/ AsyncSetupEntryForward
    \/ AsyncSetupEntryRaise
    \/ AsyncUnloadEntryBegin
    \/ \E outcome \in UnloadOutcomes : AsyncUnloadEntryFinish(outcome)
    \/ \E d \in UpdatedData(data),
          failing \in SUBSET EntriesForConfigEntry(registry, ENTRY) :
              AsyncUpdateListener(d, failing)
    \/ \E i \in DOMAIN log, r \in Responses : FetchSucceeds(i, r)
    \/ \E i \in DOMAIN log : FetchFails(i)
    \/ \E i \in DOMAIN log, ok \in BOOLEAN : PingDone(i, ok)

\* The entry is set up and unloaded; of the coordinator only the first refresh
\* of each setup is followed.
UnloadNext ==
    \/ AsyncSetupEntryBegin
    \/ AsyncSetupEntryForward
    \/ AsyncSetupEntryRaise
    \/ AsyncUnloadEntryBegin
    \/ \E outcome \in UnloadOutcomes : AsyncUnloadEntryFinish(outcome)
    \/ \E i \in DOMAIN log, r \in Responses : FetchSucceeds(i, r)
    \/ \E i \in DOMAIN log : FetchFails(i)
    \/ \E i \in DOMAIN log, ok \in BOOLEAN : PingDone(i, ok)

MigrateNext ==
    \E ok \in BOOLEAN, failing \in SUBSET EntriesForConfigEntry(registry, ENTRY) :
        AsyncMigrateEntry(ok, failing)

Spec == Init /\ [][Next]_vars

ReloadSpec == Init /\ [][ReloadNext]_vars

MigrateSpec == MigrateInit /\ [][MigrateNext]_vars

UnloadSpec == UnloadInit /\ [][UnloadNext]_vars

SetupSpec == SetupInit /\ [][UnloadNext]_vars

\* ================================================================== claims

\* C1: platforms are forwarded only after the first refresh has succeeded. In
\* every reachable state: if async_forward_entry_setups was called by the
\* current setup attempt, or async_setup_entry returned True, the first refresh
\* of that attempt succeeded; and when the first refresh failed, the handler has
\* not returned True, nothing was forwarded, no platform of the entry exists and
\* the entry is not loaded.
ForwardedOnlyAfterFirstRefresh ==
    /\ forward_called => first_refresh = "ok"
    /\ setup_pc = "returned" => first_refresh = "ok"
    /\ first_refresh = "failed" =>
          /\ ~forward_called
          /\ setup_pc # "returned"
          /\ entry_state # "LOADED"
          /\ \A i \in DOMAIN platforms : platforms[i].entry_id # ENTRY

\* C1: a setup attempt whose first refresh failed has raised out of the handler.
FirstRefreshFailedWitness ==
    /\ setup_pc = "raised"
    /\ first_refresh = "failed"
    /\ entry_state = "SETUP_RETRY"

\* C2: after a setup attempt whose first refresh failed, the entry does not
\* reference the coordinator of that attempt and no update listener of the
\* attempt is left: the entry is as before the attempt.
NoHalfInitializedCoordinator ==
    setup_pc = "raised" =>
        /\ runtime_data # coord
        /\ update_listeners = listeners_before
        /\ on_unload = 0

\* C3: a failed fetch leaves the snapshot (records and capture timestamp) as
\* the last successful fetch made it and clears freshness; a successful fetch
\* replaces the snapshot as a whole (the records the fetch returned, the
\* timestamp of its cycle) and sets freshness; what observers were last handed
\* is the snapshot whenever no new one is being pinged for (until teardown); a stale delivery
\* repeats the previous delivery's records and timestamp.
StaleButAvailable ==
    /\ [](\A i \in DOMAIN log :
            (log[i].fetch = "ok" /\ ~torn_down) =>
                /\ snapshot = [records |-> log[i].body, captured |-> log[i].n]
                /\ fresh)
    /\ []((observed # <<>> /\ Pinging = {} /\ ~torn_down) =>
            observed[Len(observed)] = View(snapshot, fresh))
    /\ [](\A k \in 1..(Len(observed) - 1) :
            IF observed[k + 1].fresh
            THEN observed[k + 1].captured > observed[k].captured
            ELSE /\ observed[k + 1].records = observed[k].records
                 /\ observed[k + 1].captured = observed[k].captured)
    /\ [][(coord' = coord /\ ~fresh') => snapshot' = snapshot]_vars
    /\ [][(coord' = coord /\ snapshot' # snapshot) =>
            /\ fresh'
            /\ snapshot'.records \in Responses
            /\ snapshot'.captured > snapshot.captured]_vars

\* C3: success, failure, success was observed as S1 fresh, S1 stale, S2 fresh.
SuccessFailureSuccessWitness ==
    /\ Len(observed) = 3
    /\ observed[1].fresh /\ ~observed[2].fresh /\ observed[3].fresh
    /\ observed[2].records = observed[1].records
    /\ observed[2].captured = observed[1].captured
    /\ observed[3].records # observed[1].records
    /\ observed[3].captured > observed[1].captured

\* C4: a ping is issued only in a cycle whose own fetch succeeded, fetch and
\* ping are never on the wire together, and the end of a ping, successful or
\* not, ends the cycle as usual (observers notified) with freshness unchanged.
PingOnlyAfterFetchSuccess ==
    /\ [](pinged \subseteq fetch_ok)
    /\ [](\A i \in DOMAIN log : log[i].ping # "none" => log[i].fetch = "ok")
    /\ [](Fetching = {} \/ Pinging = {})
    /\ [][(Pinging # {} /\ Pinging' = {} /\ coord' = coord /\ ~torn_down) =>
            /\ fresh' = fresh
            /\ log' = <<>>
            /\ observed' = Deliver(observed, View(snapshot, fresh))]_vars

\* C4: three cycles ran, the second failed: pings on cycles 1 and 3 only.
PingOnCycles1And3Witness ==
    /\ clock = 3
    /\ log = <<>>
    /\ fetch_ok = {1, 3}
    /\ pinged = {1, 3}
    /\ Len(observed) = 3

\* C5: at most one cycle, and one fetch, is in flight; while a cycle is in
\* flight no other cycle starts, and a request arriving then only waits.
AtMostOneCycleInFlight ==
    /\ [](Cardinality(InFlight) <= 1)
    /\ [](Cardinality(Fetching) <= 1)
    /\ [][(InFlight # {} /\ coord' = coord) => clock' = clock]_vars
    /\ [][waiting' > waiting => (InFlight # {} /\ log' = log /\ clock' = clock)]_vars

\* C5: two on-demand requests wait on the one fetch in flight.
RequestsCoalescedWitness ==
    /\ waiting = 2
    /\ Cardinality(Fetching) = 1

TlsVerifiedUnlessSelfHostedHttp ==
    coord > 0 =>
        (coord_config.check_verify_ssl <=>
            ~(Truthy(data, CONF_SELF_HOSTED)
              /\ ~StartsWith(coord_config.site_root, S_https)))

\* The last return value of async_migrate_entry.
LastResult(results) == results[Len(results)]

\* C9 as stated: a run of async_migrate_entry that follows another, on an
\* entry at version 1 or 2, changes nothing and returns True; the version never
\* decreases, never passes 2 from below, and is 2 after a run that returned True.
MigrateTwiceSameAsOnce ==
    /\ [][(Len(migrate_results) >= 1 /\ Len(migrate_results') = Len(migrate_results) + 1
           /\ version <= 2) =>
            /\ data' = data
            /\ unique_id' = unique_id
            /\ version' = version
            /\ registry' = registry
            /\ LastResult(migrate_results') = "true"]_vars
    /\ [][version' >= version /\ (version <= 2 => version' <= 2)]_vars
    /\ []((migrate_results # <<>> /\ LastResult(migrate_results) = "true") => version = 2)

\* C9 amended: a run of async_migrate_entry that follows a run that returned
\* True changes nothing and returns True; the version never decreases, never
\* passes 2 from below, and is 2 after a run that returned True.
MigrateAgainAfterSuccessChangesNothing ==
    /\ [][(Len(migrate_results) >= 1 /\ Len(migrate_results') = Len(migrate_results) + 1
           /\ LastResult(migrate_results) = "true") =>
            /\ data' = data
            /\ unique_id' = unique_id
            /\ version' = version
            /\ registry' = registry
            /\ LastResult(migrate_results') = "true"]_vars
    /\ [][version' >= version /\ (version <= 2 => version' <= 2)]_vars
    /\ []((migrate_results # <<>> /\ LastResult(migrate_results) = "true") => version = 2)

\* C9: a self-hosted version 1 entry was migrated (its ping endpoint is the
\* cleaned URL, an entity carries the added prefix) and migrated again.
MigratedTwiceWitness ==
    /\ migrate_results = <<"true", "true">>
    /\ version = 2
    /\ StartsWith(data[CONF_PING_ENDPOINT], <<"clean_url(">>)
    /\ Entity(S_eid_bs_a, S_binary_sensor_ \o S_abc, ENTRY) \in registry

\* C10: a run of async_migrate_entry that returns False leaves the entry's
\* data, unique id and version and every entity's unique id as they were.
FailedMigrationChangesNothing ==
    [][(Len(migrate_results') = Len(migrate_results) + 1
        /\ LastResult(migrate_results') = "false") =>
            /\ data' = data
            /\ unique_id' = unique_id
            /\ version' = version
            /\ registry' = registry]_vars

\* C11: a successful migration from version 1 to 2 leaves entry data in which
\* create-binary-sensor is True, create-sensor is False, the ping identifier is
\* the value that was stored under "check" (None when there was none), "check"
\* is gone, and every other key but site root and ping endpoint has its old
\* value; the entry's unique id is the stored API key; an entry that is not
\* self-hosted gets the default site root and ping endpoint whatever it had
\* stored, a self-hosted one keeps its site root and gets as ping endpoint the
\* cleaned URL of "<site root>/<old ping endpoint>".
MigrationYieldsVersion2Schema ==
    [][(version = 1 /\ version' = 2) =>
         LET rewritten == {CONF_CREATE_BINARY_SENSOR, CONF_CREATE_SENSOR, CONF_PING_UUID,
                           CONF_SITE_ROOT, CONF_PING_ENDPOINT}
         IN  /\ LastResult(migrate_results') = "true"
             /\ DOMAIN data' = (DOMAIN data \ {CONF_CHECK}) \cup rewritten
             /\ data'[CONF_CREATE_BINARY_SENSOR] = TRUE
             /\ data'[CONF_CREATE_SENSOR] = FALSE
             /\ data'[CONF_PING_UUID] =
                    (IF CONF_CHECK \in DOMAIN data THEN data[CONF_CHECK] ELSE None)
             /\ unique_id' = data[CONF_API_KEY]
             /\ \A k \in DOMAIN data \ (rewritten \cup {CONF_CHECK}) : data'[k] = data[k]
             /\ IF data[CONF_SELF_HOSTED]
                THEN /\ data'[CONF_SITE_ROOT] = data[CONF_SITE_ROOT]
                     /\ data'[CONF_PING_ENDPOINT] =
                            CleanUrl(data[CONF_SITE_ROOT] \o <<"/">>
                                     \o data[CONF_PING_ENDPOINT])
                ELSE /\ data'[CONF_SITE_ROOT] = DEFAULT_SITE_ROOT
                     /\ data'[CONF_PING_ENDPOINT] = DEFAULT_PING_ENDPOINT]_vars

\* C11: a self-hosted version 1 entry without "check" was migrated: its ping
\* identifier is None, its ping endpoint the cleaned URL under its own site root.
MigratedSelfHostedWithoutCheckWitness ==
    /\ version = 2
    /\ migrate_results = <<"true">>
    /\ data[CONF_SELF_HOSTED]
    /\ data[CONF_SITE_ROOT] = S_http_local
    /\ data[CONF_PING_ENDPOINT] = CleanUrl(S_http_local \o <<"/">> \o S_ping)
    /\ data[CONF_PING_UUID] = None
    /\ unique_id = S_key

\* C12: a run of the version 1 to 2 migration replaces the unique id u of every
\* binary_sensor entity of the entry that lacks the prefix by "binary_sensor_" + u,
\* unless updating that entity raised ValueError, in which case the entity keeps
\* its unique id and the others are renamed all the same; entities that have
\* the prefix, entities of other platforms and entities of other entries stay
\* as they are; the run ends with the result of the config-entry update
\* whether or not an entity failed; no unique id ever carries the prefix twice.
PrefixAddedOnceToBinarySensors ==
    /\ [][(version = 1 /\ Len(migrate_results') = Len(migrate_results) + 1) =>
            /\ rename_errors' \subseteq registry \cap registry'
            /\ Cardinality(registry') = Cardinality(registry)
            /\ \A e \in registry :
                  IF /\ e.config_entry_id = ENTRY
                     /\ PlatformOf(e) = BINARY_SENSOR
                     /\ ~StartsWith(e.unique_id, S_binary_sensor_)
                     /\ e \notin rename_errors'
                  THEN /\ e \notin registry'
                       /\ [e EXCEPT !.unique_id = S_binary_sensor_ \o e.unique_id]
                              \in registry'
                  ELSE e \in registry'
            /\ (LastResult(migrate_results') = "true") = (version' = 2)]_vars
    /\ [](\A e \in registry :
            ~StartsWith(e.unique_id, S_binary_sensor_ \o S_binary_sensor_))

\* C12: the rename of binary_sensor.a raised ValueError; binary_sensor.c was
\* renamed all the same, the other entry's entity was left alone and the entry
\* was updated to version 2.
RenameErrorContainedWitness ==
    /\ migrate_results = <<"true">>
    /\ version = 2
    /\ rename_errors = {Entity(S_eid_bs_a, S_abc, ENTRY)}
    /\ Entity(S_eid_bs_a, S_abc, ENTRY) \in registry
    /\ Entity(S_eid_bs_c, S_binary_sensor_ \o S_def, ENTRY) \in registry
    /\ Entity(S_eid_bs_b, S_binary_sensor_xyz, ENTRY) \in registry
    /\ Entity(S_eid_s_a, S_xyz, ENTRY) \in registry
    /\ Entity(S_eid_bs_z, S_abc, OTHER_ENTRY) \in registry

\* C13: async_unload_entry always returns a boolean. When the entry has no
\* active platform it returns True without calling async_unload_platforms;
\* otherwise it calls it and returns the boolean it returned, or False when it
\* raised ValueError or OperationNotAllowed.
UnloadResultFollowsUnloadPlatforms ==
    /\ [](unload_result \in {"none", "true", "false"})
    /\ []((unload_pc = "idle" /\ unload_result # "none") =>
            /\ (unload_outcome = "none") = (unload_request = <<>>)
            /\ unload_outcome = "none" => unload_result = "true"
            /\ unload_outcome \in {"true", "false"} => unload_result = unload_outcome
            /\ unload_outcome \in {"ValueError", "OperationNotAllowed"} =>
                   unload_result = "false")
    /\ [][(entry_state = "LOADED" /\ entry_state' # "LOADED") =>
            IF \A i \in DOMAIN platforms : platforms[i].entry_id # ENTRY
            THEN /\ unload_pc' = "idle"
                 /\ unload_outcome' = "none"
                 /\ unload_result' = "true"
            ELSE /\ unload_pc' = "unloading"
                 /\ unload_request' # <<>>]_vars

\* C13: async_unload_platforms raised OperationNotAllowed and the handler
\* returned False.
UnloadRaisedReturnsFalseWitness ==
    /\ unload_pc = "idle"
    /\ unload_outcome = "OperationNotAllowed"
    /\ unload_result = "false"
    /\ unload_request # <<>>

\* C14: the list async_unload_entry hands to async_unload_platforms holds
\* exactly the domains of the platforms of the entry being unloaded (its state
\* is LOADED or UNLOAD_IN_PROGRESS when the handler runs), each once, in the
\* order of their first occurrence in the host's list; a domain that only
\* platforms of other entries, or platforms without an entry, have is never in it.
UnloadsOnlyOwnPlatformsOnce ==
    [][(entry_state = "LOADED" /\ entry_state' # "LOADED") =>
         LET req == unload_request'
             mine == {i \in DOMAIN platforms : platforms[i].entry_id = ENTRY}
             first(d) == CHOOSE i \in mine :
                             /\ platforms[i].domain = d
                             /\ \A j \in mine : platforms[j].domain = d => i <= j
         IN  /\ \A k \in DOMAIN req : \E i \in mine : platforms[i].domain = req[k]
             /\ \A i \in mine : \E k \in DOMAIN req : req[k] = platforms[i].domain
             /\ \A k, l \in DOMAIN req : k # l => req[k] # req[l]
             /\ \A k, l \in DOMAIN req : k < l => first(req[k]) < first(req[l])]_vars

\* C14: the host held a sensor platform of the entry and the binary sensor
\* platform of another entry when the entry, with both flags set, was set up;
\* the unload asks for sensor, then binary_sensor, each once.
UnloadRequestDeduplicatedWitness ==
    /\ unload_pc = "unloading"
    /\ platforms = <<[domain |-> SENSOR, entry_id |-> ENTRY],
                     [domain |-> BINARY_SENSOR, entry_id |-> OTHER_ENTRY],
                     [domain |-> BINARY_SENSOR, entry_id |-> ENTRY],
                     [domain |-> SENSOR, entry_id |-> ENTRY]>>
    /\ unload_request = <<SENSOR, BINARY_SENSOR>>

FlaggedPlatforms ==
    (IF CONF_CREATE_BINARY_SENSOR \in DOMAIN data /\ data[CONF_CREATE_BINARY_SENSOR] = TRUE
     THEN <<BINARY_SENSOR>> ELSE <<>>)
    \o (IF CONF_CREATE_SENSOR \in DOMAIN data /\ data[CONF_CREATE_SENSOR] = TRUE
        THEN <<SENSOR>> ELSE <<>>)

\* C16: async_setup_entry forwards the list holding binary_sensor if the
\* create-binary-sensor flag is present and true, then sensor if the
\* create-sensor flag is present and true, and nothing else (a missing flag
\* counts as false); whatever the flags, the coordinator is constructed and
\* stored and the first refresh awaited before that, and a successful first
\* refresh is followed by the forward of that list, empty or not, and the
\* return of True.
ForwardsPlatformsOfTrueFlags ==
    /\ [](forward_called => forwarded = FlaggedPlatforms)
    /\ [](setup_pc = "first_refresh" =>
             /\ coord >= 1
             /\ runtime_data = coord
             /\ first_refresh # "none")
    /\ [](setup_pc = "returned" =>
             /\ forward_called
             /\ first_refresh = "ok")
    /\ [][(setup_pc = "first_refresh" /\ first_refresh = "ok"
            /\ setup_pc' # setup_pc) =>
             /\ setup_pc' = "returned"
             /\ forward_called'
             /\ forwarded' = FlaggedPlatforms
             /\ entry_state' = "LOADED"]_vars

\* C16: an entry with both create flags missing was set up: the coordinator was
\* constructed, the first refresh succeeded, an empty list was forwarded and
\* the handler returned True.
SetUpWithoutFlagsWitness ==
    /\ CONF_CREATE_BINARY_SENSOR \notin DOMAIN data
    /\ CONF_CREATE_SENSOR \notin DOMAIN data
    /\ setup_pc = "returned"
    /\ entry_state = "LOADED"
    /\ forward_called
    /\ forwarded = <<>>
    /\ coord = 1
    /\ runtime_data = coord
    /\ first_refresh = "ok"

====
